---- MODULE Spec2Model ----
(***************************************************************************)
(* The serial shell of examples/IotWebConf18ShellCommands                   *)
(* (namespace shell of IotWebConf18ShellCommands.ino): the command          *)
(* registry, the line assembler processSerialInput, the parser parseCommand *)
(* and the dispatcher execute.                                              *)
(*                                                                          *)
(* A C string is a sequence of byte values (ASCII codes) without its        *)
(* terminating NUL; an array is a function over its 0-based indices.        *)
(***************************************************************************)
EXTENDS Integers, Sequences, FiniteSets, TLC

(***************************************************************************)
(* Program constants.                                                       *)
(***************************************************************************)
MAX_COMMANDS == 10
MAX_COMMAND_SIZE == 40

\* enum input_type
NONE == "NONE"
INT32 == "INT32"
STRING_T == "STRING"

\* the bytes processSerialInput and parseCommand single out
NL == 10
CR == 13
BS == 8
SP == 32

\* the range of long and of int32_t on the 32-bit targets of the sketch
LONG_MAX == 2147483647
LONG_MIN == (-LONG_MAX) - 1

(***************************************************************************)
(* Text literals: Str(<<"a","p">>) is the C string "ap".                    *)
(***************************************************************************)
Digits == << "0", "1", "2", "3", "4", "5", "6", "7", "8", "9" >>

Upper ==
  << "A", "B", "C", "D", "E", "F", "G", "H", "I", "J", "K", "L", "M",
     "N", "O", "P", "Q", "R", "S", "T", "U", "V", "W", "X", "Y", "Z" >>

Lower ==
  << "a", "b", "c", "d", "e", "f", "g", "h", "i", "j", "k", "l", "m",
     "n", "o", "p", "q", "r", "s", "t", "u", "v", "w", "x", "y", "z" >>

Pos(c, table) == CHOOSE i \in 1..Len(table) : table[i] = c

\* the ASCII code of a character
Ord(c) ==
  CASE c = " " -> 32
    [] c = "+" -> 43
    [] c = "-" -> 45
    [] c = "_" -> 95
    [] \E i \in 1..Len(Digits) : Digits[i] = c -> 47 + Pos(c, Digits)
    [] \E i \in 1..Len(Upper) : Upper[i] = c -> 64 + Pos(c, Upper)
    [] \E i \in 1..Len(Lower) : Lower[i] = c -> 96 + Pos(c, Lower)

Str(cs) == [i \in 1..Len(cs) |-> Ord(cs[i])]

Rep(b, n) == [i \in 1..n |-> b]

(***************************************************************************)
(* The C library functions the shell calls.                                 *)
(***************************************************************************)
Min(a, b) == IF a < b THEN a ELSE b

\* the element of a set of one element.  Only({F(x) : x \in {e}}) is F(e)
\* with e evaluated once.
Only(S) == CHOOSE x \in S : TRUE

\* strchr(s, c) - s: the 0-based offset of the first c in s, -1 for NULL
StrChr(s, c) ==
  IF \E i \in 1..Len(s) : s[i] = c
  THEN (CHOOSE i \in 1..Len(s) : s[i] = c /\ \A j \in 1..(i - 1) : s[j] # c) - 1
  ELSE -1

\* strcmp(a, b): negative, zero or positive; the bytes compare as unsigned.
\* StrCmpFrom compares from offset i on.
RECURSIVE StrCmpFrom(_, _, _)
StrCmpFrom(a, b, i) ==
  IF i >= Len(a) /\ i >= Len(b) THEN 0
  ELSE IF i >= Len(a) THEN -1
  ELSE IF i >= Len(b) THEN 1
  ELSE IF a[i + 1] # b[i + 1] THEN (IF a[i + 1] < b[i + 1] THEN -1 ELSE 1)
  ELSE StrCmpFrom(a, b, i + 1)

StrCmp(a, b) == StrCmpFrom(a, b, 0)

\* strlcpy(dst, src, size): what dst holds afterwards, and how many bytes of
\* dst were written (the copied bytes and the terminator).  With size 0
\* nothing is written and dst keeps what it held.  size is a size_t: a
\* negative value arrives as a number above 2^31, more than any string here
\* is long, so all of src is copied.
StrLCpy(dst, src, size) ==
  IF size = 0
  THEN [str |-> dst, written |-> 0]
  ELSE LET n == IF size < 0 THEN Len(src) ELSE Min(Len(src), size - 1)
       IN  [str |-> SubSeq(src, 1, n), written |-> n + 1]

IsSpace(b) == b \in {32, 9, 10, 11, 12, 13}

\* the value of a byte as a digit, 99 for a byte that is no digit or letter
DigitVal(b) ==
  IF b >= 48 /\ b <= 57 THEN b - 48
  ELSE IF b >= 65 /\ b <= 90 THEN b - 65 + 10
  ELSE IF b >= 97 /\ b <= 122 THEN b - 97 + 10
  ELSE 99

CeilDiv(x, b) == (x \div b) + (IF x % b = 0 THEN 0 ELSE 1)

\* the digit loop of strtol from offset p.  The magnitude is accumulated as
\* the non-positive number acc, so that every value of long has one; over
\* says that the digits name a magnitude beyond LONG_MIN.  any counts the
\* digits taken, p is the offset after the last one.
RECURSIVE StrToLDigits(_, _, _, _, _, _)
StrToLDigits(s, p, base, acc, over, any) ==
  IF p < Len(s) /\ DigitVal(s[p + 1]) < base
  THEN LET d == DigitVal(s[p + 1])
           fits == ~over /\ acc >= CeilDiv(LONG_MIN + d, base)
       IN  StrToLDigits(s, p + 1, base,
                        IF fits THEN acc * base - d ELSE acc, ~fits, any + 1)
  ELSE [acc |-> acc, over |-> over, any |-> any, p |-> p]

RECURSIVE SkipSpace(_, _)
SkipSpace(s, p) ==
  IF p < Len(s) /\ IsSpace(s[p + 1]) THEN SkipSpace(s, p + 1) ELSE p

\* strtol(s, &end, 0): val is the result, end the offset of *end in s
\* (end = Len(s) when *end is the terminator).  Leading white space is skipped,
\* a sign is optional, the base is 16 after 0x/0X, 8 after 0, 10 otherwise; a
\* magnitude out of the range of long is clamped (range says so: ERANGE); with
\* no digit taken the result is 0 and end is the start of s.
StrToLFrom(s, p0) ==
  LET neg == p0 < Len(s) /\ s[p0 + 1] = 45
      p1 == IF p0 < Len(s) /\ s[p0 + 1] \in {43, 45} THEN p0 + 1 ELSE p0
      hex == /\ p1 + 1 < Len(s)
             /\ s[p1 + 1] = 48
             /\ s[p1 + 2] \in {120, 88}
      base == IF hex THEN 16
              ELSE IF p1 < Len(s) /\ s[p1 + 1] = 48 THEN 8 ELSE 10
      p2 == IF hex THEN p1 + 2 ELSE p1
  IN  Only({ IF d.any = 0
             THEN [val |-> 0, end |-> 0, range |-> FALSE]
             ELSE [val |-> IF neg
                           THEN (IF d.over THEN LONG_MIN ELSE d.acc)
                           ELSE (IF d.over \/ d.acc = LONG_MIN
                                 THEN LONG_MAX ELSE -d.acc),
                   end |-> d.p,
                   range |-> d.over \/ (~neg /\ d.acc = LONG_MIN)] :
             d \in {StrToLDigits(s, p2, base, 0, FALSE, 0)} })

StrToL(s) == Only({ StrToLFrom(s, p0) : p0 \in {SkipSpace(s, 0)} })

(***************************************************************************)
(* Serial output: one token per print call or group of print calls.  t     *)
(* names the text, s is the string printed with it, arg the argument       *)
(* printed after a name, doc a documentation text.                         *)
(***************************************************************************)
NoArg == [type |-> NONE, int |-> 0, str |-> <<>>]

Tok(t, s, arg, doc) == [t |-> t, s |-> s, arg |-> arg, doc |-> doc]

Say(t) == Tok(t, <<>>, NoArg, "")

(***************************************************************************)
(* The registry: Command commands[MAX_COMMANDS] and commands_count.        *)
(***************************************************************************)
\* the members of the anonymous union of struct Command
VoidFunction == "voidFunction"
IntFunction == "intFunction"
StrFunction == "strFunction"

\* struct Command.  function is the union: alt is the member that was
\* stored last, ptr the function it points to.
Command(name, alt, ptr, doc, type) ==
  [name |-> name, function |-> [alt |-> alt, ptr |-> ptr], doc |-> doc,
   parameter_type |-> type]

\* an element of the zero-initialised global array
NullCommand == Command(<<>>, "null", "NULL", "NULL", NONE)

Indices == 0..(MAX_COMMANDS - 1)

\* a store to commands[i]; the array has MAX_COMMANDS elements
Store(cmds, i, field, v) ==
  IF i \in Indices THEN [cmds EXCEPT ![i][field] = v] ELSE cmds

\* addCommand with the bound tested one too far (<= for <)
addCommandOneTooMany(cmds, count, name, doc) ==
  IF count <= MAX_COMMANDS
  THEN [ok |-> TRUE,
        commands |-> Store(Store(cmds, count, "name", name), count, "doc", doc),
        out |-> <<>>]
  ELSE [ok |-> FALSE, commands |-> cmds,
        out |-> <<Say("Too many commands have been defined.")>>]

\* addCommand: whether there is room, and the array with name and doc stored
addCommand(cmds, count, name, doc) ==
  IF count < MAX_COMMANDS
  THEN [ok |-> TRUE,
        commands |-> Store(Store(cmds, count, "name", name), count, "doc", doc),
        out |-> <<>>]
  ELSE [ok |-> FALSE, commands |-> cmds,
        out |-> <<Say("Too many commands have been defined.")>>]

\* the body shared by defineCommand, defineIntCommand and
\* defineStringCommand: store the handler in its union member, set the kind
\* and count the entry, when addCommand found room
define(cmds, count, name, alt, ptr, doc, type) ==
  LET a == addCommand(cmds, count, name, doc)
  IN  IF a.ok
      THEN [commands |-> Store(Store(a.commands, count, "function",
                                     [alt |-> alt, ptr |-> ptr]),
                               count, "parameter_type", type),
            commands_count |-> count + 1,
            out |-> a.out]
      ELSE [commands |-> a.commands, commands_count |-> count, out |-> a.out]

(***************************************************************************)
(* parseCommand.  stack is what the caller's uninitialised CommandLine     *)
(* holds on entry: a field the parser does not write keeps that value.     *)
(* fn_written and arg_written count the bytes written to function_name and *)
(* to str_argument, each an array of MAX_COMMAND_SIZE bytes; after a write *)
(* past either array the record holds whatever the stack holds.            *)
(***************************************************************************)
CommandLine(name, type, int, str) ==
  [function_name |-> name, argument_type |-> type, int_argument |-> int,
   str_argument |-> str]

parseCommand(command, stack) ==
  IF Len(command) = 0
  THEN [cl |-> [stack EXCEPT !.argument_type = NONE],
        fn_written |-> 0, arg_written |-> 0,
        out |-> <<Say("Received empty command")>>]
  ELSE
    LET first_space == StrChr(command, SP)
    IN  IF first_space = -1
        THEN LET f == StrLCpy(stack.function_name, command, MAX_COMMAND_SIZE)
             IN  [cl |-> [stack EXCEPT !.argument_type = NONE,
                                       !.function_name = f.str],
                  fn_written |-> f.written, arg_written |-> 0, out |-> <<>>]
        ELSE LET f == StrLCpy(stack.function_name, command, first_space + 1)
                 a == StrLCpy(stack.str_argument,
                              SubSeq(command, first_space + 2, Len(command)),
                              MAX_COMMAND_SIZE - first_space - 1)
             IN  Only({ [cl |-> IF f.written > MAX_COMMAND_SIZE
                                   \/ a.written > MAX_COMMAND_SIZE
                                THEN stack
                                ELSE CommandLine(f.str,
                                                 IF n.end < Len(a.str)
                                                 THEN STRING_T ELSE INT32,
                                                 n.val, a.str),
                         fn_written |-> f.written, arg_written |-> a.written,
                         out |-> <<>>] :
                        n \in {StrToL(a.str)} })

(***************************************************************************)
(* listAvailableCommands: qsort by compareCommandNames, then one line per  *)
(* entry.  qsort orders entries of equal name in an unspecified way:       *)
(* QSortResults is every order of the indices below count that is          *)
(* ascending by name.                                                      *)
(***************************************************************************)
\* compareCommandNames with its operands exchanged
compareCommandNamesReversed(c1, c2) == StrCmp(c2.name, c1.name)

compareCommandNames(c1, c2) == StrCmp(c1.name, c2.name)

RECURSIVE SortedOrders(_, _)
SortedOrders(cmds, S) ==
  IF S = {} THEN {<<>>}
  ELSE LET least == {i \in S : \A j \in S :
                       compareCommandNames(cmds[i], cmds[j]) <= 0}
       IN  UNION {{<<i>> \o rest : rest \in SortedOrders(cmds, S \ {i})} :
                  i \in least}

QSortResults(cmds, count) == SortedOrders(cmds, 0..(count - 1))

\* a sort that moves the names and leaves the rest of each entry in place
qsortNames(cmds, count, order) ==
  [i \in Indices |-> IF i < count
                     THEN [cmds[i] EXCEPT !.name = cmds[order[i + 1]].name]
                     ELSE cmds[i]]

\* qsort(commands, commands_count, ...) leaving the entries in order
qsort(cmds, count, order) ==
  [i \in Indices |-> IF i < count THEN cmds[order[i + 1]] ELSE cmds[i]]

\* listAvailableCommands with its loop ending one entry early
listAllButLast(cmds, count, order) ==
  LET sorted == qsort(cmds, count, order)
  IN  [commands |-> sorted,
       out |-> [i \in 1..(count - 1) |->
                  Tok("help line", sorted[i - 1].name, NoArg, sorted[i - 1].doc)]]

listAvailableCommands(cmds, count, order) ==
  LET sorted == qsort(cmds, count, order)
  IN  [commands |-> sorted,
       out |-> [i \in 1..count |->
                  Tok("help line", sorted[i - 1].name, NoArg, sorted[i - 1].doc)]]

(***************************************************************************)
(* execute.  Returns the parsed line, the handler calls made (none or      *)
(* one), the output and the registry afterwards.  A call is made through   *)
(* the union member the parsed kind selects (via); stored is the member    *)
(* the entry's handler was stored in.                                      *)
(***************************************************************************)
\* the switch of execute taking its first case whatever the kind
MemberOfFirstCase(type) == VoidFunction

Member(type) ==
  CASE type = NONE -> VoidFunction
    [] type = INT32 -> IntFunction
    [] type = STRING_T -> StrFunction

\* the test of execute without the comparison of the kinds
MatchesName(input, cmd) == StrCmp(input.function_name, cmd.name) = 0

Matches(input, cmd) ==
  /\ StrCmp(input.function_name, cmd.name) = 0
  /\ input.argument_type = cmd.parameter_type

Argument(input) ==
  CASE input.argument_type = NONE -> NoArg
    [] input.argument_type = INT32 ->
         [type |-> INT32, int |-> input.int_argument, str |-> <<>>]
    [] input.argument_type = STRING_T ->
         [type |-> STRING_T, int |-> 0, str |-> input.str_argument]

\* execute once parseCommand returned p
executeParsed(command_str, p, cmds, count, order) ==
  LET input == p.cl
      hits == {i \in 0..(count - 1) : Matches(input, cmds[i])}
  IN  IF hits # {}
      THEN LET i == CHOOSE h \in hits : \A g \in hits : h <= g
           IN  [parsed |-> p,
                calls |-> <<[name |-> cmds[i].name,
                             via |-> Member(input.argument_type),
                             stored |-> cmds[i].function.alt,
                             ptr |-> cmds[i].function.ptr,
                             arg |-> Argument(input)]>>,
                out |-> p.out \o
                        <<Tok("Calling", input.function_name, Argument(input), "")>>,
                commands |-> cmds]
      ELSE LET l == listAvailableCommands(cmds, count, order)
           IN  [parsed |-> p,
                calls |-> <<>>,
                out |-> p.out \o
                        <<Tok("not supported", command_str, NoArg, "")>> \o l.out,
                commands |-> l.commands]

execute(command_str, stack, cmds, count, order) ==
  Only({ executeParsed(command_str, p, cmds, count, order) :
         p \in {parseCommand(command_str, stack)} })

(***************************************************************************)
(* State.                                                                  *)
(***************************************************************************)
VARIABLES
  commands,        \* Command commands[MAX_COMMANDS]
  commands_count,  \* uint8_t commands_count
  input_line,      \* processSerialInput: static char input_line[MAX_COMMAND_SIZE]
  input_pos,       \* processSerialInput: static unsigned int input_pos
  line_store,      \* the index of input_line the last operation stored to, -1 for none
  serial,          \* the bytes Serial holds: received and not yet read
  consumed,        \* the bytes read from Serial so far
  batches,         \* the number of batches of bytes received so far
  dispatched,      \* the lines processSerialInput handed to execute so far
  pc,              \* "setup": in setup(); "loop": in loop()
  setup_pc,        \* the number of calls defineShellCommands has made
  halted,          \* a handler restarted the device: this run is over
  request,         \* the string the host hands to execute in this run
  accepted,        \* the registrations made so far that found room, in order
  op,              \* the last operation
  byte,            \* the byte the last processSerialInput was given, -1 otherwise
  line,            \* the string the last execute was given
  parsed,          \* what parseCommand returned in the last execute
  calls,           \* the handler calls the last operation made
  out              \* what the last operation printed

vars ==
  << commands, commands_count, input_line, input_pos, line_store, serial,
     consumed, batches, dispatched, pc, setup_pc, halted, request, accepted,
     op, byte, line, parsed, calls, out >>

registry == << commands, commands_count >>
assembler == << input_line, input_pos, line_store >>
stream == << serial, consumed, batches, dispatched >>
dispatch == << line, parsed, calls >>

(***************************************************************************)
(* Bounds and input sets.                                                  *)
(***************************************************************************)
\* batches of bytes the serial line delivers in one run
MaxBatches == 2

\* the handlers of the sketch
Restart == "[]() { ESP.restart(); }"
SaveConfig == "[]() { iotWebConf.saveConfig(); }"

Call(api, name, ptr, doc) == [api |-> api, name |-> name, ptr |-> ptr, doc |-> doc]

\* defineShellCommands: its calls in order
DefineShellCommands ==
  << Call("defineCommand", Str(<<"r","e","s","e","t">>), Restart,
          "(Restarts the ESP)"),
     Call("defineCommand", Str(<<"s","a","v","e","_","c","o","n","f","i","g">>),
          SaveConfig, "(Saves the config to EEPROM)"),
     Call("defineCommand", Str(<<"r","e","s","e","t","_","c","o","n","f","i","g">>),
          "resetConfig", "(Resets the complete IotWeb config)"),
     Call("defineStringCommand", Str(<<"s","s","i","d">>), "setSSID",
          "name (Sets SSID to name)"),
     Call("defineStringCommand", Str(<<"w","i","f","i","_","p","w","d">>),
          "setWifiPassword", "abc (Sets WiFi password to abc)"),
     Call("defineStringCommand", Str(<<"a","p","_","p","w","d">>),
          "setApPassword", "abc (Sets AP password to abc)"),
     Call("defineStringCommand", Str(<<"n","a","m","e">>), "setThingName",
          "abc (Sets ThingName to abc)"),
     Call("defineIntCommand", Str(<<"a","p">>), "apOnOff",
          "0/1 (Enables/disables access point)"),
     Call("defineIntCommand", Str(<<"w","i","f","i">>), "wifiOnOff",
          "0/1 (Enables/disables WiFi)") >>

\* commands a host adds to the sketch's ("Feel free to add other commands"):
\* a new name, and the name ap once more with another kind
OtherCommands ==
  { Call("defineCommand", Str(<<"h","e","l","p">>), "showHelp", "(Shows help)"),
    Call("defineStringCommand", Str(<<"a","p">>), "setApName",
         "abc (Sets AP name to abc)") }

\* what the uninitialised CommandLine of execute may hold
Junk == Str(<<"Z","Z">>)

\* nothing that matches, the name and kind of a registered command, and a
\* name with a text
StackGarbage ==
  { CommandLine(Junk, NONE, 0, <<>>),
    CommandLine(DefineShellCommands[2].name, NONE, 0, Junk),
    CommandLine(DefineShellCommands[8].name, STRING_T, 0, Junk) }

(***************************************************************************)
(* Init: the globals and statics as the C++ runtime initialises them.      *)
(***************************************************************************)
InitWith(command_line) ==
  /\ request = command_line
  /\ accepted = <<>>
  /\ commands = [i \in Indices |-> NullCommand]
  /\ commands_count = 0
  /\ input_line = [i \in 0..(MAX_COMMAND_SIZE - 1) |-> 0]
  /\ input_pos = 0
  /\ line_store = -1
  /\ serial = <<>>
  /\ consumed = <<>>
  /\ batches = 0
  /\ dispatched = <<>>
  /\ pc = "setup"
  /\ setup_pc = 0
  /\ halted = FALSE
  /\ op = "init"
  /\ byte = -1
  /\ line = <<>>
  /\ parsed = [cl |-> CommandLine(<<>>, NONE, 0, <<>>),
               fn_written |-> 0, arg_written |-> 0, out |-> <<>>]
  /\ calls = <<>>
  /\ out = <<>>

Init == InitWith(<<>>)

(***************************************************************************)
(* Registration.                                                           *)
(***************************************************************************)
Defined(api, name, function, doc_fstring, d) ==
  /\ ~halted
  /\ commands' = d.commands
  /\ commands_count' = d.commands_count
  /\ accepted' = IF d.commands_count > commands_count
                 THEN Append(accepted, Call(api, name, function, doc_fstring))
                 ELSE accepted
  /\ op' = api
  /\ out' = d.out
  /\ byte' = -1
  /\ calls' = <<>>
  /\ line_store' = -1
  /\ UNCHANGED << input_line, input_pos, stream, halted, request, line, parsed >>

defineCommand(name, function, doc_fstring) ==
  Defined("defineCommand", name, function, doc_fstring,
          define(commands, commands_count, name, VoidFunction, function,
                 doc_fstring, NONE))

defineIntCommand(name, function, doc_fstring) ==
  Defined("defineIntCommand", name, function, doc_fstring,
          define(commands, commands_count, name, IntFunction, function,
                 doc_fstring, INT32))

defineStringCommand(name, function, doc_fstring) ==
  Defined("defineStringCommand", name, function, doc_fstring,
          define(commands, commands_count, name, StrFunction, function,
                 doc_fstring, STRING_T))

Make(c) ==
  \/ c.api = "defineCommand" /\ defineCommand(c.name, c.ptr, c.doc)
  \/ c.api = "defineIntCommand" /\ defineIntCommand(c.name, c.ptr, c.doc)
  \/ c.api = "defineStringCommand" /\ defineStringCommand(c.name, c.ptr, c.doc)

\* setup(): the next call of defineShellCommands
Setup ==
  /\ pc = "setup"
  /\ setup_pc < Len(DefineShellCommands)
  /\ Make(DefineShellCommands[setup_pc + 1])
  /\ setup_pc' = setup_pc + 1
  /\ pc' = pc

\* a command the host adds after the sketch's own
SetupOther ==
  /\ pc = "setup"
  /\ setup_pc = Len(DefineShellCommands)
  /\ \E c \in OtherCommands : Make(c)
  /\ UNCHANGED << pc, setup_pc >>

\* setup() returns and loop() takes over
Ready ==
  /\ pc = "setup"
  /\ setup_pc = Len(DefineShellCommands)
  /\ pc' = "loop"
  /\ op' = "setup"
  /\ out' = <<Say("Ready.")>>
  /\ byte' = -1
  /\ calls' = <<>>
  /\ line_store' = -1
  /\ UNCHANGED << registry, input_line, input_pos, stream, setup_pc, halted,
                  request, accepted, line, parsed >>

(***************************************************************************)
(* The dispatcher as an operation: execute(command_line) called by         *)
(* processSerialInput or through the public interface.                     *)
(***************************************************************************)
\* whether a handler call restarts the device and so never returns
Restarts(cs) == \E i \in 1..Len(cs) : cs[i].ptr = Restart

\* the whole array taken for the string, its terminator overlooked
CStrPastTerminator(buf) == [i \in 1..MAX_COMMAND_SIZE |-> buf[i - 1]]

\* the C string an array holds: the bytes before its first NUL
CStr(buf) ==
  LET nuls == {i \in DOMAIN buf : buf[i] = 0}
      n == IF nuls = {} THEN MAX_COMMAND_SIZE
           ELSE CHOOSE i \in nuls : \A j \in nuls : i <= j
  IN  [i \in 1..n |-> buf[i - 1]]

\* a store to input_line[i]; the array has MAX_COMMAND_SIZE elements
StoreByte(buf, i, b) == IF i \in DOMAIN buf THEN [buf EXCEPT ![i] = b] ELSE buf

\* the state after execute returned e
Executed(command_line, e) ==
  /\ commands' = e.commands
  /\ line' = command_line
  /\ parsed' = e.parsed
  /\ calls' = e.calls
  /\ halted' = Restarts(e.calls)

\* the public entry point, called with any string
CallExecute(command_line) ==
  /\ ~halted
  /\ \E order \in QSortResults(commands, commands_count), stack \in StackGarbage :
       \E e \in {execute(command_line, stack, commands, commands_count, order)} :
         /\ Executed(command_line, e)
         /\ out' = e.out
  /\ op' = "execute"
  /\ byte' = -1
  /\ line_store' = -1
  /\ UNCHANGED << commands_count, input_line, input_pos, stream, pc, setup_pc,
                  request, accepted >>

(***************************************************************************)
(* The line assembler.                                                     *)
(***************************************************************************)
\* the bound without the place of the terminator
RoomWithoutTerminator == MAX_COMMAND_SIZE

\* the bound below which processSerialInput stores a byte
Room == MAX_COMMAND_SIZE - 1

\* a byte that is discarded without the test for the carriage return
IsReturnNever(b) == FALSE

\* case '\r': the byte is discarded
IsReturn(b) == b = CR

\* the backspace taken without the test of the cursor
CanEraseAlways(pos) == TRUE

\* case '\b': whether there is a byte to take back
CanErase(pos) == pos > 0

processSerialInput(input_byte) ==
  /\ op' = "processSerialInput"
  /\ byte' = input_byte
  /\ \/ /\ input_byte = NL
        /\ \E command_line \in {CStr(StoreByte(input_line, input_pos, 0))} :
             /\ \E order \in QSortResults(commands, commands_count),
                   stack \in StackGarbage :
                  \E e \in {execute(command_line, stack, commands,
                                    commands_count, order)} :
                    /\ Executed(command_line, e)
                    /\ out' = <<Say("newline")>> \o e.out
             /\ dispatched' = Append(dispatched, command_line)
        /\ input_line' = StoreByte(input_line, input_pos, 0)
        /\ line_store' = input_pos
        /\ input_pos' = IF halted' THEN input_pos ELSE 0
        /\ UNCHANGED commands_count
     \/ /\ IsReturn(input_byte)
        /\ out' = <<>>
        /\ calls' = <<>>
        /\ line_store' = -1
        /\ UNCHANGED << registry, input_line, input_pos, dispatched, halted,
                        line, parsed >>
     \/ /\ input_byte = BS
        /\ IF CanErase(input_pos)
           THEN /\ input_pos' = input_pos - 1
                /\ out' = <<Say("erase")>>
           ELSE /\ input_pos' = input_pos
                /\ out' = <<>>
        /\ calls' = <<>>
        /\ line_store' = -1
        /\ UNCHANGED << registry, input_line, dispatched, halted, line, parsed >>
     \/ /\ input_byte \notin {NL, BS}
        /\ ~IsReturn(input_byte)
        /\ IF input_pos < Room
           THEN /\ input_line' = StoreByte(input_line, input_pos, input_byte)
                /\ line_store' = input_pos
                /\ input_pos' = input_pos + 1
                /\ out' = (IF input_pos = 0 THEN <<Say("> ")>> ELSE <<>>)
                          \o <<Tok("echo", <<input_byte>>, NoArg, "")>>
           ELSE /\ out' = IF input_pos = 0 THEN <<Say("> ")>> ELSE <<>>
                /\ line_store' = -1
                /\ UNCHANGED << input_line, input_pos >>
        /\ calls' = <<>>
        /\ UNCHANGED << registry, dispatched, halted, line, parsed >>

\* checkSerialInput reading a second byte, when there is one, and dropping it
checkSerialInputSkipping ==
  /\ pc = "loop"
  /\ ~halted
  /\ Len(serial) > 0
  /\ serial' = IF Len(serial) > 1 THEN Tail(Tail(serial)) ELSE Tail(serial)
  /\ consumed' = consumed \o SubSeq(serial, 1, Min(2, Len(serial)))
  /\ processSerialInput(Head(serial))
  /\ UNCHANGED << batches, pc, setup_pc, request, accepted >>

\* one round of the loop of checkSerialInput: a byte is available, it is
\* read and processed
checkSerialInput ==
  /\ pc = "loop"
  /\ ~halted
  /\ Len(serial) > 0
  /\ serial' = Tail(serial)
  /\ consumed' = Append(consumed, Head(serial))
  /\ processSerialInput(Head(serial))
  /\ UNCHANGED << batches, pc, setup_pc, request, accepted >>

\* the serial line delivers a batch of bytes
SerialReceive(batch) ==
  /\ pc = "loop"
  /\ ~halted
  /\ batches < MaxBatches
  /\ serial' = serial \o batch
  /\ batches' = batches + 1
  /\ op' = "receive"
  /\ byte' = -1
  /\ calls' = <<>>
  /\ out' = <<>>
  /\ line_store' = -1
  /\ UNCHANGED << registry, input_line, input_pos, consumed, dispatched, pc,
                  setup_pc, halted, request, accepted, line, parsed >>

(***************************************************************************)
(* What is typed on the serial line.                                       *)
(***************************************************************************)
S_ap == Str(<<"a","p">>)
S_name == Str(<<"n","a","m","e">>)
S_help == Str(<<"h","e","l","p">>)
S_reset == Str(<<"r","e","s","e","t">>)
S_save_config == Str(<<"s","a","v","e","_","c","o","n","f","i","g">>)

\* more bytes than input_line holds
LongArg == Rep(Ord("x"), MAX_COMMAND_SIZE - 4)

Batches ==
  { S_ap \o <<SP>> \o Str(<<"1">>) \o <<NL>>,
    S_ap \o <<SP>> \o Str(<<"y","e","s">>) \o <<NL>>,
    <<NL>>,
    S_name \o <<SP>> \o Str(<<"a">>) \o <<NL>> \o S_name \o <<SP>> \o Str(<<"b">>) \o <<NL>>,
    S_ap \o <<SP, CR, NL>>,
    <<BS>> \o Str(<<"s","a","v","e","_","c","o","n","f","i","x">>) \o <<BS>> \o Str(<<"g">>),
    S_name \o <<SP>> \o LongArg \o <<NL>>,
    S_reset \o <<NL>>,
    S_help \o <<NL>>,
    S_ap \o <<SP>> \o Str(<<"0","x","F","F">>) \o <<NL>>,
    S_name \o <<SP>> \o Str(<<"m","y","_","t","h","i","n","g">>) \o <<NL>>
      \o S_save_config \o <<NL>>,
    S_ap \o <<SP>> \o Str(<<"1">>) \o <<CR, NL>> }

Next ==
  \/ Setup
  \/ SetupOther
  \/ Ready
  \/ \E batch \in Batches : SerialReceive(batch)
  \/ checkSerialInput

Spec == Init /\ [][Next]_vars

\* The serial line under the scheduling of the sketch: loop() runs again
\* and again, and the loop of checkSerialInput goes on while a byte is
\* available.  The batches are those of several lines, of a line ended by
\* "\r\n", of an edited line without its end, of the end alone, of a line
\* longer than input_line and of the command that never returns.
LineBatches ==
  { S_name \o <<SP>> \o Str(<<"a">>) \o <<NL>> \o S_name \o <<SP>> \o Str(<<"b">>) \o <<NL>>,
    S_ap \o <<SP, CR, NL>>,
    <<BS>> \o Str(<<"s","a","v","e","_","c","o","n","f","i","x">>) \o <<BS>> \o Str(<<"g">>),
    <<NL>>,
    S_name \o <<SP>> \o LongArg \o <<NL>>,
    S_reset \o <<NL>> }

LineNext ==
  \/ Setup
  \/ SetupOther
  \/ Ready
  \/ \E batch \in LineBatches : SerialReceive(batch)
  \/ checkSerialInput

LineSpec == Init /\ [][LineNext]_vars /\ WF_vars(checkSerialInput)

(***************************************************************************)
(* The public interface used directly: the host hands one of ApiLines to   *)
(* execute, any number of times, once setup is over.                       *)
(***************************************************************************)
ApiNames == { S_ap, S_name, S_save_config, S_help }

ApiArguments ==
  { <<>>,
    Str(<<"1">>), Str(<<"0">>), Str(<<"-","5">>), Str(<<"+","7">>),
    Str(<<"0","x","F","F">>), Str(<<"0","x">>), Str(<<"0","1","0">>),
    Str(<<"0","8">>), Str(<<"y","e","s">>),
    Str(<<"m","y","_","t","h","i","n","g">>),
    Str(<<" ","1">>), Str(<<"1"," ">>), Str(<<"1","x">>), Str(<<"-">>),
    Str(<<"a"," ","b">>),
    Str(<<"2","1","4","7","4","8","3","6","4","7">>),
    Str(<<"2","1","4","7","4","8","3","6","4","8">>),
    Str(<<"-","2","1","4","7","4","8","3","6","4","8">>),
    Str(<<"-","2","1","4","7","4","8","3","6","4","9">>),
    Str(<<"9","9","9","9","9","9","9","9","9","9","9">>),
    Str(<<"0","x","F","F","F","F","F","F","F","F">>),
    Rep(Ord("x"), MAX_COMMAND_SIZE - 6),
    Rep(Ord("x"), MAX_COMMAND_SIZE) }

\* names of MAX_COMMAND_SIZE - 2 to MAX_COMMAND_SIZE + 1 bytes
LongNames == { Rep(Ord("a"), n) : n \in (MAX_COMMAND_SIZE - 2)..(MAX_COMMAND_SIZE + 1) }

SketchNames == { DefineShellCommands[i].name : i \in 1..Len(DefineShellCommands) }

ApiLines ==
  {<<>>, <<SP>>, <<SP>> \o S_ap}
    \cup ApiNames
    \cup SketchNames
    \cup {n \o <<SP>> \o a : n \in SketchNames,
                              a \in {Str(<<"1">>), Str(<<"y","e","s">>)}}
    \cup LongNames
    \cup {n \o <<SP>> \o a : n \in ApiNames, a \in ApiArguments}
    \cup {n \o <<SP>> \o a : n \in LongNames,
                              a \in {Str(<<"1">>), Rep(Ord("b"), MAX_COMMAND_SIZE)}}

ApiNext ==
  \/ Setup
  \/ SetupOther
  \/ Ready
  \/ /\ pc = "loop"
     /\ CallExecute(request)

ApiInit == \E command_line \in ApiLines : InitWith(command_line)

ApiSpec == ApiInit /\ [][ApiNext]_vars

(***************************************************************************)
(* The public interface used while the commands are being defined: the     *)
(* host calls execute between two registrations as well as after them.     *)
(***************************************************************************)
HostLines ==
  { S_help,
    S_save_config,
    S_ap \o <<SP>> \o Str(<<"1">>),
    S_ap \o <<SP>> \o Str(<<"y","e","s">>),
    S_name \o <<SP>> \o Str(<<"a">>) }

HostNext ==
  \/ Setup
  \/ SetupOther
  \/ Ready
  \/ CallExecute(request)

HostInit == \E command_line \in HostLines : InitWith(command_line)

HostSpec == HostInit /\ [][HostNext]_vars

(***************************************************************************)
(* Vocabulary of the properties.                                           *)
(***************************************************************************)
\* the last operation ran execute on line
Dispatched == op = "execute" \/ (op = "processSerialInput" /\ byte = NL)

\* a line that fits input_line with its terminator
Bounded(l) == Len(l) < MAX_COMMAND_SIZE

\* the text before the first space of a line, and the text after it
NamePart(l) == IF StrChr(l, SP) = -1 THEN l ELSE SubSeq(l, 1, StrChr(l, SP))

RawArgument(l) == SubSeq(l, StrChr(l, SP) + 2, Len(l))

Registered == 0..(commands_count - 1)

\* the registered commands of the name and kind of the parsed line
Candidates ==
  {i \in Registered : /\ commands[i].name = NamePart(line)
                      /\ commands[i].parameter_type = parsed.cl.argument_type}

\* the argument a handler is due for the parsed line
Decoded ==
  CASE parsed.cl.argument_type = NONE -> NoArg
    [] parsed.cl.argument_type = INT32 ->
         [type |-> INT32, int |-> parsed.cl.int_argument, str |-> <<>>]
    [] parsed.cl.argument_type = STRING_T ->
         [type |-> STRING_T, int |-> 0, str |-> RawArgument(line)]

Printed(t) == \E j \in 1..Len(out) : out[j].t = t

IsHelpLine(tok) == tok.t = "help line"

HelpLines == SelectSeq(out, IsHelpLine)

DefineOps == {"defineCommand", "defineIntCommand", "defineStringCommand"}

KindOf(api) ==
  CASE api = "defineCommand" -> NONE
    [] api = "defineIntCommand" -> INT32
    [] api = "defineStringCommand" -> STRING_T

TooMany == <<Say("Too many commands have been defined.")>>

(***************************************************************************)
(* C1: for every input line whose name part is the name of a registered    *)
(* command and whose inferred kind is that command's kind, execute calls   *)
(* that command's handler, once and no other, through the member of its    *)
(* kind and with the decoded argument (nothing, the integer, or the text   *)
(* after the first space); the "not supported" listing is not printed.     *)
(***************************************************************************)
C1_MatchedLineCallsItsHandler ==
  Dispatched =>
    \A i \in Candidates :
      /\ Len(calls) = 1
      /\ calls[1].name = commands[i].name
      /\ calls[1].ptr = commands[i].function.ptr
      /\ calls[1].via = commands[i].function.alt
      /\ calls[1].arg = Decoded
      /\ ~Printed("not supported")
      /\ ~Printed("help line")

\* "ap 1" called apOnOff(1), and "ap yes" called the text handler a host
\* registered under the same name
C1_Witness ==
  /\ Dispatched
  /\ line = S_ap \o <<SP>> \o Str(<<"y","e","s">>)
  /\ Len(calls) = 1
  /\ calls[1].ptr = "setApName"
  /\ calls[1].arg.str = Str(<<"y","e","s">>)
  /\ \E i \in Registered : commands[i].function.ptr = "apOnOff"

(***************************************************************************)
(* C2: a non-empty input line for which no registered command has both its *)
(* name and its parsed kind calls no handler; execute prints the raw line  *)
(* with the "not supported" notice and then one help line for every        *)
(* registered command.                                                     *)
(***************************************************************************)
C2_UnmatchedLinePrintsHelp ==
  (Dispatched /\ line # <<>> /\ Candidates = {}) =>
    /\ calls = <<>>
    /\ ~Printed("Calling")
    /\ \E j \in 1..Len(out) :
         /\ out[j] = Tok("not supported", line, NoArg, "")
         /\ SubSeq(out, j + 1, Len(out)) = HelpLines
    /\ Len(HelpLines) = commands_count
    /\ \A i \in Registered :
         \E j \in 1..Len(HelpLines) :
           HelpLines[j] = Tok("help line", commands[i].name, NoArg, commands[i].doc)

\* "ap yes" with ap registered for an integer only
C2_Witness ==
  /\ Dispatched
  /\ line = S_ap \o <<SP>> \o Str(<<"y","e","s">>)
  /\ \E i \in Registered : commands[i].name = S_ap
  /\ calls = <<>>
  /\ Printed("not supported")
  /\ Len(HelpLines) = Len(DefineShellCommands)

(***************************************************************************)
(* C3: dispatching the empty line calls no handler and prints no command   *)
(* output: no call trace, no "not supported" notice, no help line.         *)
(***************************************************************************)
C3_EmptyLineIsSilent ==
  (Dispatched /\ line = <<>>) =>
    /\ calls = <<>>
    /\ ~Printed("Calling")
    /\ ~Printed("not supported")
    /\ ~Printed("help line")

(***************************************************************************)
(* C4: a line made of a name and one space with nothing after it parses to *)
(* kind Text with the empty text, not to None and not to Integer.          *)
(***************************************************************************)
C4_TrailingSpaceIsEmptyText ==
  (/\ Dispatched
   /\ Len(line) > 1
   /\ StrChr(line, SP) = Len(line) - 1) =>
    /\ parsed.cl.argument_type = STRING_T
    /\ parsed.cl.str_argument = <<>>

(***************************************************************************)
(* C5: commands_count never exceeds MAX_COMMANDS.  A registration made     *)
(* with the registry full prints the warning and leaves commands_count and *)
(* every entry as they were; one made with room left appends exactly one   *)
(* entry, the one registered, and changes no other.                        *)
(***************************************************************************)
C5_Registration ==
  (op' \in DefineOps) =>
    IF commands_count >= MAX_COMMANDS
    THEN /\ commands' = commands
         /\ commands_count' = commands_count
         /\ accepted' = accepted
         /\ out' = TooMany
    ELSE /\ commands_count' = commands_count + 1
         /\ \A i \in Indices \ {commands_count} : commands'[i] = commands[i]
         /\ Len(accepted') = Len(accepted) + 1
         /\ LET c == accepted'[Len(accepted')]
            IN  /\ c.api = op'
                /\ commands'[commands_count] =
                     Command(c.name, Member(KindOf(c.api)), c.ptr, c.doc, KindOf(c.api))
         /\ out' = <<>>

C5_RegistryCapacity ==
  /\ [](commands_count <= MAX_COMMANDS)
  /\ [][C5_Registration]_vars

\* a registration was refused with the registry full
C5_Witness ==
  /\ op \in DefineOps
  /\ out = TooMany
  /\ commands_count = MAX_COMMANDS
  /\ Len(accepted) = MAX_COMMANDS

(***************************************************************************)
(* Vocabulary of C6 to C10.                                                *)
(***************************************************************************)
\* a is before b in byte-wise (ASCII) order
LexLess(a, b) ==
  \E p \in 1..Len(b) :
    /\ \A q \in 1..(p - 1) : q <= Len(a) /\ a[q] = b[q]
    /\ (p > Len(a) \/ a[p] < b[p])

DistinctNames ==
  \A i, j \in 1..Len(accepted) : i # j => accepted[i].name # accepted[j].name

\* the entry a registration asks for
EntryOf(c) == Command(c.name, Member(KindOf(c.api)), c.ptr, c.doc, KindOf(c.api))

\* the bytes between the end-of-line bytes of a stream, one sequence for
\* every end-of-line byte
RECURSIVE SplitLines(_, _, _, _)
SplitLines(bytes, i, cur, done) ==
  IF i > Len(bytes) THEN done
  ELSE IF bytes[i] = NL THEN SplitLines(bytes, i + 1, <<>>, Append(done, cur))
  ELSE SplitLines(bytes, i + 1, Append(cur, bytes[i]), done)

LinesOf(bytes) == SplitLines(bytes, 1, <<>>, <<>>)

\* the line a sequence of typed bytes stands for: a carriage return counts
\* for nothing, a backspace takes the last byte back, and a byte beyond the
\* first MAX_COMMAND_SIZE - 1 is dropped
RECURSIVE Typed(_, _, _)
Typed(bytes, i, text) ==
  IF i > Len(bytes) THEN text
  ELSE Typed(bytes, i + 1,
             IF bytes[i] = CR THEN text
             ELSE IF bytes[i] = BS
                  THEN SubSeq(text, 1, Len(text) - 1)
                  ELSE IF Len(text) < MAX_COMMAND_SIZE - 1
                       THEN Append(text, bytes[i])
                       ELSE text)

Ordinary(bytes) == \A i \in 1..Len(bytes) : bytes[i] \notin {BS, CR, NL}

SerialDispatch == op = "processSerialInput" /\ byte = NL

IsPrefix(a, b) == Len(a) <= Len(b) /\ SubSeq(b, 1, Len(a)) = a

(***************************************************************************)
(* C6: with pairwise distinct names registered, every registered name is   *)
(* the name of exactly one entry of the registry and that entry is the one *)
(* registered (kind, handler, doc); a handler a dispatch calls is the one  *)
(* registered under the name; and the help listing prints every            *)
(* registered command exactly once, in ascending byte-wise order of name.  *)
(***************************************************************************)
C6_LookupAndSortedHelp ==
  DistinctNames =>
    /\ \A k \in 1..Len(accepted) :
         /\ Cardinality({i \in Registered : commands[i].name = accepted[k].name}) = 1
         /\ \E i \in Registered : commands[i] = EntryOf(accepted[k])
    /\ (Dispatched /\ calls # <<>>) =>
         \E k \in 1..Len(accepted) :
           /\ accepted[k].name = calls[1].name
           /\ accepted[k].ptr = calls[1].ptr
           /\ Member(KindOf(accepted[k].api)) = calls[1].via
    /\ (Dispatched /\ Printed("not supported")) =>
         /\ Len(HelpLines) = Len(accepted)
         /\ \A k \in 1..Len(accepted) :
              \E j \in 1..Len(HelpLines) :
                HelpLines[j] =
                  Tok("help line", accepted[k].name, NoArg, accepted[k].doc)
         /\ \A j \in 1..(Len(HelpLines) - 1) :
              LexLess(HelpLines[j].s, HelpLines[j + 1].s)

\* ten commands of distinct names, registered in another order than that of
\* their names, were listed
C6_Witness ==
  /\ Dispatched
  /\ Printed("not supported")
  /\ DistinctNames
  /\ Len(accepted) = MAX_COMMANDS
  /\ Len(HelpLines) = MAX_COMMANDS
  /\ \E k \in 1..(Len(accepted) - 1) : LexLess(accepted[k + 1].name, accepted[k].name)

(***************************************************************************)
(* C7: the cursor input_pos stays within 0..MAX_COMMAND_SIZE-1, no store   *)
(* to input_line, the terminator of a line included, is to an index of     *)
(* MAX_COMMAND_SIZE or more, and a line of more than MAX_COMMAND_SIZE-1    *)
(* ordinary bytes is dispatched as its first MAX_COMMAND_SIZE-1 bytes.     *)
(***************************************************************************)
C7_LineBufferBounds ==
  /\ input_pos \in 0..(MAX_COMMAND_SIZE - 1)
  /\ line_store < MAX_COMMAND_SIZE
  /\ SerialDispatch =>
       LET typed == LinesOf(consumed)[Len(LinesOf(consumed))]
       IN  (Ordinary(typed) /\ Len(typed) > MAX_COMMAND_SIZE - 1) =>
             line = SubSeq(typed, 1, MAX_COMMAND_SIZE - 1)

\* a line of 41 ordinary bytes was dispatched, its terminator stored at the
\* last index of input_line
C7_Witness ==
  /\ SerialDispatch
  /\ Len(LinesOf(consumed)[Len(LinesOf(consumed))]) > MAX_COMMAND_SIZE
  /\ Ordinary(LinesOf(consumed)[Len(LinesOf(consumed))])
  /\ Len(line) = MAX_COMMAND_SIZE - 1
  /\ line_store = MAX_COMMAND_SIZE - 1

(***************************************************************************)
(* C8: every end-of-line byte read causes one dispatch, of the line it     *)
(* ends, and the dispatches are in the order of arrival; when a dispatch   *)
(* has made its call or printed its help, no byte after its end-of-line    *)
(* byte has been read; the bytes are read one by one, each once and in the *)
(* order of arrival; and, handlers returning, checkSerialInput goes on     *)
(* until every available byte is read.                                     *)
(***************************************************************************)
C8_Dispatches ==
  /\ Len(dispatched) = Len(LinesOf(consumed))
  /\ \A i \in 1..Len(dispatched) :
       dispatched[i] = Typed(LinesOf(consumed)[i], 1, <<>>)
  /\ SerialDispatch =>
       /\ consumed[Len(consumed)] = NL
       /\ line = dispatched[Len(dispatched)]
  /\ (calls # <<>> \/ Printed("not supported")) => Dispatched

C8_Read ==
  /\ IsPrefix(consumed \o serial, consumed' \o serial')
  /\ consumed' # consumed =>
       /\ consumed' = Append(consumed, Head(serial))
       /\ serial' = Tail(serial)
       /\ op' = "processSerialInput"
       /\ byte' = Head(serial)
       /\ (Head(serial) # NL => dispatched' = dispatched)

C8_LinesInOrder ==
  /\ [](C8_Dispatches)
  /\ [][C8_Read]_vars
  /\ (serial # <<>>) ~> (serial = <<>> \/ halted)

\* two lines that came in one batch were dispatched, in their order, and
\* all bytes are read
C8_Witness ==
  /\ batches = 1
  /\ serial = <<>>
  /\ dispatched = << S_name \o <<SP>> \o Str(<<"a">>), S_name \o <<SP>> \o Str(<<"b">>) >>
  /\ SerialDispatch
  /\ Len(calls) = 1
  /\ calls[1].arg.str = Str(<<"b">>)

(***************************************************************************)
(* C9: for every string handed to execute, the parser writes at most       *)
(* MAX_COMMAND_SIZE bytes to function_name and to str_argument, leaves     *)
(* both terminated, and a name or argument too long is cut short.          *)
(***************************************************************************)
C9_ParserStaysInItsBuffers ==
  (op = "execute" /\ line # <<>>) =>
    /\ parsed.fn_written >= 1
    /\ parsed.fn_written <= MAX_COMMAND_SIZE
    /\ parsed.arg_written <= MAX_COMMAND_SIZE
    /\ IsPrefix(parsed.cl.function_name, NamePart(line))
    /\ Len(parsed.cl.function_name) =
         Min(Len(NamePart(line)), MAX_COMMAND_SIZE - 1)
    /\ StrChr(line, SP) # -1 =>
         /\ parsed.arg_written >= 1
         /\ IsPrefix(parsed.cl.str_argument, RawArgument(line))
         /\ Len(parsed.cl.str_argument) < MAX_COMMAND_SIZE

(***************************************************************************)
(* C10: a non-empty line of at most MAX_COMMAND_SIZE-1 characters without  *)
(* a space parses to its whole text as the name and kind None; one with a  *)
(* space parses to the text before the first space as the name, and to     *)
(* kind Integer with the value of the literal exactly when all the text    *)
(* after the first space is a signed integer literal (optional sign, then  *)
(* decimal, 0x-hexadecimal or 0-octal digits), to kind Text with that text *)
(* otherwise.                                                              *)
(***************************************************************************)
\* the digits of a literal: its base and the offset of its first digit, base
\* 0 when the text is no literal
LiteralForm(t) ==
  LET signed == Len(t) > 0 /\ t[1] \in {43, 45}
      p == IF signed THEN 1 ELSE 0
      digits(from, base) ==
        /\ from < Len(t)
        /\ \A i \in (from + 1)..Len(t) : DigitVal(t[i]) < base
  IN  IF p + 1 < Len(t) /\ t[p + 1] = 48 /\ t[p + 2] \in {120, 88}
      THEN [base |-> IF digits(p + 2, 16) THEN 16 ELSE 0, from |-> p + 2]
      ELSE IF p < Len(t) /\ t[p + 1] = 48
      THEN [base |-> IF digits(p, 8) THEN 8 ELSE 0, from |-> p]
      ELSE [base |-> IF digits(p, 10) THEN 10 ELSE 0, from |-> p]

\* the value of digits from offset i on, summed towards LONG_MIN so that the
\* sum stays in range; none when the value is beyond it
RECURSIVE Magnitude(_, _, _, _)
Magnitude(t, i, base, acc) ==
  IF i > Len(t) THEN [none |-> FALSE, neg |-> acc]
  ELSE IF acc < CeilDiv(LONG_MIN + DigitVal(t[i]), base)
  THEN [none |-> TRUE, neg |-> 0]
  ELSE Magnitude(t, i + 1, base, acc * base - DigitVal(t[i]))

\* the value of a literal; none when the text is no literal or names no
\* value of int32_t
LiteralValue(t) ==
  LET f == LiteralForm(t)
      m == Magnitude(t, f.from + 1, f.base, 0)
  IN  IF f.base = 0 \/ m.none THEN [none |-> TRUE, val |-> 0]
      ELSE IF t[1] = 45 THEN [none |-> FALSE, val |-> m.neg]
      ELSE IF m.neg = LONG_MIN THEN [none |-> TRUE, val |-> 0]
      ELSE [none |-> FALSE, val |-> -m.neg]

C10_NameAndKindOfALine ==
  (Dispatched /\ line # <<>> /\ Bounded(line)) =>
    IF StrChr(line, SP) = -1
    THEN /\ parsed.cl.function_name = line
         /\ parsed.cl.argument_type = NONE
    ELSE /\ parsed.cl.function_name = NamePart(line)
         /\ parsed.cl.str_argument = RawArgument(line)
         /\ IF LiteralForm(RawArgument(line)).base # 0
            THEN /\ parsed.cl.argument_type = INT32
                 /\ ~LiteralValue(RawArgument(line)).none
                 /\ parsed.cl.int_argument = LiteralValue(RawArgument(line)).val
            ELSE parsed.cl.argument_type = STRING_T

(***************************************************************************)
(* C11: once setup is over, an operation that processes input             *)
(* (processSerialInput, checkSerialInput, execute of a matched or of an    *)
(* unmatched line) leaves the registry as it was: the array commands and   *)
(* commands_count are the same after the operation as before it.           *)
(***************************************************************************)
C11_InputStep ==
  (pc = "loop" /\ op' \in {"processSerialInput", "execute"}) =>
    /\ commands' = commands
    /\ commands_count' = commands_count

C11_InputKeepsRegistry == [][C11_InputStep]_vars

(***************************************************************************)
(* C12: the kind of every registry entry names the union member its        *)
(* handler was stored in, and every call execute makes goes through the    *)
(* member of the kind of the entry called: voidFunction for NONE,          *)
(* intFunction for INT32, strFunction for STRING.                          *)
(***************************************************************************)
MemberOfKind ==
  [k \in {NONE, INT32, STRING_T} |->
     IF k = NONE THEN "voidFunction"
     ELSE IF k = INT32 THEN "intFunction" ELSE "strFunction"]

C12_HandlerCalledThroughItsMember ==
  /\ \A i \in Registered :
       commands[i].function.alt = MemberOfKind[commands[i].parameter_type]
  /\ \A j \in 1..Len(calls) :
       /\ calls[j].via = calls[j].stored
       /\ \E i \in Registered :
            /\ commands[i].name = calls[j].name
            /\ commands[i].function.ptr = calls[j].ptr
            /\ calls[j].via = MemberOfKind[commands[i].parameter_type]
            /\ calls[j].arg.type = commands[i].parameter_type

\* the integer handler of ap was called while a text handler is registered
\* under the same name
C12_Witness ==
  /\ Dispatched
  /\ Len(calls) = 1
  /\ calls[1].ptr = "apOnOff"
  /\ calls[1].via = "intFunction"
  /\ \E i \in Registered : commands[i].function.ptr = "setApName"

(***************************************************************************)
(* C13: a backspace received with the cursor at 0 changes nothing: the     *)
(* cursor stays 0 and never goes below it, input_line is untouched,        *)
(* nothing is echoed and nothing is dispatched; a backspace received with  *)
(* the cursor above 0 takes the cursor back by exactly one.                *)
(***************************************************************************)
C13_BackspaceStep ==
  (op' = "processSerialInput" /\ byte' = BS) =>
    IF input_pos = 0
    THEN /\ input_pos' = 0
         /\ input_line' = input_line
         /\ line_store' = -1
         /\ out' = <<>>
         /\ calls' = <<>>
         /\ dispatched' = dispatched
    ELSE input_pos' = input_pos - 1

C13_Backspace ==
  /\ [](input_pos >= 0)
  /\ [][C13_BackspaceStep]_vars

\* a backspace came first on a line, with a command registered and nothing
\* echoed
C13_Witness ==
  /\ op = "processSerialInput"
  /\ byte = BS
  /\ input_pos = 0
  /\ out = <<>>
  /\ consumed[Len(consumed)] = BS

(***************************************************************************)
(* C14: a carriage return leaves input_line and the cursor as they were    *)
(* and dispatches nothing, so the lines dispatched for a stream are those  *)
(* of the stream without its carriage returns: a line ended by CR LF is    *)
(* dispatched as the same line ended by LF.                                *)
(***************************************************************************)
IsNoReturn(b) == b # CR

StripCR(bytes) == SelectSeq(bytes, IsNoReturn)

TypedLines(bytes) ==
  [i \in 1..Len(LinesOf(bytes)) |-> Typed(LinesOf(bytes)[i], 1, <<>>)]

C14_ReturnStep ==
  (op' = "processSerialInput" /\ byte' = CR) =>
    /\ input_line' = input_line
    /\ input_pos' = input_pos
    /\ line_store' = -1
    /\ dispatched' = dispatched
    /\ calls' = <<>>

C14_ReturnIgnored ==
  /\ [](dispatched = TypedLines(StripCR(consumed)))
  /\ [][C14_ReturnStep]_vars

\* "ap 1" ended by CR LF and "ap 1" ended by LF were dispatched as the same
\* line
C14_Witness ==
  /\ SerialDispatch
  /\ Len(dispatched) = 2
  /\ dispatched[1] = dispatched[2]
  /\ dispatched[1] = S_ap \o <<SP>> \o Str(<<"1">>)
  /\ Len(StripCR(consumed)) = Len(consumed) - 1

(***************************************************************************)
(* C15: on an end-of-line byte the line handed to execute is               *)
(* input_line[0..input_pos): the bytes accepted since the previous         *)
(* end-of-line byte, in order, a backspace received with the cursor above  *)
(* 0 having taken back the last of them; after the dispatch the cursor is  *)
(* 0, so that no byte of a line appears in a later line.                   *)
(***************************************************************************)
C15_Step ==
  /\ (op' = "processSerialInput" /\ byte' = NL) =>
       /\ line' = [i \in 1..input_pos |-> input_line[i - 1]]
       /\ dispatched' = Append(dispatched, line')
       /\ ~halted' => input_pos' = 0
  /\ (op' = "processSerialInput" /\ byte' \notin {NL, CR, BS}
        /\ input_pos < MAX_COMMAND_SIZE - 1) =>
       /\ input_pos' = input_pos + 1
       /\ input_line' = [input_line EXCEPT ![input_pos] = byte']

C15_DispatchedLine ==
  /\ [](SerialDispatch =>
          /\ line = Typed(LinesOf(consumed)[Len(LinesOf(consumed))], 1, <<>>)
          /\ ~halted => input_pos = 0)
  /\ [][C15_Step]_vars

\* "save_confix", a backspace and "g" were dispatched as "save_config"
C15_Witness ==
  /\ SerialDispatch
  /\ line = S_save_config
  /\ \E i \in 1..Len(LinesOf(consumed)[Len(LinesOf(consumed))]) :
       /\ i > 1
       /\ LinesOf(consumed)[Len(LinesOf(consumed))][i] = BS
  /\ input_pos = 0
  /\ Len(calls) = 1

(***************************************************************************)
(* C16: the outcome of dispatching a line (the handler called and its      *)
(* argument, or the help listing printed) is a function of the line and of *)
(* the registered commands alone: it is the same whatever the CommandLine  *)
(* record of execute held before the line was parsed.                      *)
(***************************************************************************)
Outcome(cs, o) ==
  [calls |-> cs,
   help |-> \E j \in 1..Len(o) : o[j].t = "not supported"]

C16_OutcomeOfALine ==
  Dispatched =>
    \A stack \in StackGarbage :
      \A order \in QSortResults(commands, commands_count) :
        \A e \in {execute(line, stack, commands, commands_count, order)} :
          Outcome(e.calls, e.out) = Outcome(calls, out)

(***************************************************************************)
(* C17: printing the help listing only permutes the registry.  After any   *)
(* number of listings commands_count is the number of registrations made   *)
(* and the array holds each registered entry as often as it was            *)
(* registered, its name with the kind, handler and doc registered with it; *)
(* every line calls the handler it would call with the array in the order  *)
(* of registration; and a registration made after a listing appends its    *)
(* entry and overwrites none.                                              *)
(***************************************************************************)
\* the array with the entries in the order of their registration
AsRegistered ==
  [i \in Indices |-> IF i < Len(accepted) THEN EntryOf(accepted[i + 1])
                     ELSE NullCommand]

TimesStored(e) == Cardinality({i \in Registered : commands[i] = e})

TimesRegistered(e) ==
  Cardinality({k \in 1..Len(accepted) : EntryOf(accepted[k]) = e})

C17_StepAfterListing ==
  (op' \in DefineOps /\ commands_count < MAX_COMMANDS) =>
    /\ \A i \in Registered : commands'[i] = commands[i]
    /\ commands'[commands_count] = EntryOf(accepted'[Len(accepted')])
    /\ commands_count' = commands_count + 1

C17_ListingPermutesRegistry ==
  /\ [](/\ commands_count = Len(accepted)
        /\ \A i \in Registered :
             TimesStored(commands[i]) = TimesRegistered(commands[i])
        /\ \A k \in 1..Len(accepted) :
             TimesStored(EntryOf(accepted[k])) = TimesRegistered(EntryOf(accepted[k]))
        /\ \A i \in Indices \ Registered : commands[i] = NullCommand
        /\ (op = "execute" /\ line # <<>>) =>
             \A order \in QSortResults(AsRegistered, commands_count) :
               \A e \in {execute(line, CommandLine(<<>>, NONE, 0, <<>>),
                                 AsRegistered, commands_count, order)} :
                 e.calls = calls)
  /\ [][C17_StepAfterListing]_vars

\* a command was registered after a help listing had put the array in
\* another order than that of registration
C17_Witness ==
  /\ op \in DefineOps
  /\ out = <<>>
  /\ commands_count > 2
  /\ \E i \in 0..(commands_count - 2) : commands[i] # AsRegistered[i]
  /\ commands[commands_count - 1] = EntryOf(accepted[Len(accepted)])

(***************************************************************************)
(* C18: for a line "name literal" classified Integer, the value the        *)
(* integer handler is called with is the value of the literal, a signed    *)
(* 32-bit integer; a literal beyond -2^31..2^31-1 is never handed to the   *)
(* handler as another value.                                               *)
(***************************************************************************)
C18_IntegerDelivered ==
  (/\ Dispatched
   /\ Bounded(line)
   /\ StrChr(line, SP) > 0
   /\ LiteralForm(RawArgument(line)).base # 0
   /\ parsed.cl.argument_type = INT32
   /\ calls # <<>>) =>
    /\ ~LiteralValue(RawArgument(line)).none
    /\ calls[1].arg.type = INT32
    /\ calls[1].arg.int = LiteralValue(RawArgument(line)).val

====
